---- MODULE Spec2Model ----
(***************************************************************************)
(* Model of the Hacker News extension's two stateful cores:                *)
(*   - the client-side story cache (chrome.storage.local slot 'hnCache')   *)
(*     with its consumers: the background script's FETCH_STORIES handler   *)
(*     and refresher, the new-tab page's loadStories and the popup's       *)
(*     loadStories;                                                        *)
(*   - the server-side CleanupService over the Article collection.         *)
(*                                                                         *)
(* Client time is counted in minutes (CACHE_DURATION = 30 * 60 * 1000 ms   *)
(* is 30), server time in days.  A story list is represented by the        *)
(* delivery it came from and its length: [src, seq, n] is the list of the  *)
(* first n stories of the seq-th network delivery, made by source src.     *)
(* Every await of the code is a step boundary.                             *)
(***************************************************************************)
EXTENDS Integers, Sequences, FiniteSets, Bags, TLC

\* ---------------------------------------------------------------- bounds
MaxTicks == 2
MaxFetches == 1
MaxRefreshFetches == 2
NumHandlers == 1
NumRefreshes == 2
MaxStarts == 2
MaxDayTicks == 2
MaxSaves == 2
NumRuns == 2
MaxProbeTime == 31
MaxItemAnomalies == 1

\* ------------------------------------------------------ program constants
CACHE_DURATION == 30
StartClock == 1
TickSteps == {15, 16}
ApiStoryLimit == 20
NewTabStoryLimit == 20
PopupStoryLimit == 10
ProxyStoryLimit == 20
maxRetries == 3

Handlers == 1..NumHandlers

Refreshes == 1..NumRefreshes

VARIABLES
    clock,            \* Date.now() of the browser, in minutes
    ticks,            \* number of clock steps taken
    cache,            \* chrome.storage.local slot 'hnCache'
    fetchSeq,         \* number of network deliveries so far
    h,                \* handleFetchStories invocations (background.js)
    nt,               \* the new-tab page's loadStories (newtab.js)
    pp,               \* the popup's loadStories (popup.js)
    rf,               \* refreshStoriesInBackground invocations
    refreshInterval,  \* background.js: let refreshInterval
    timers,           \* active setInterval timers: [id, due], and how often
                      \* each has fired
    timerSeq,         \* number of setInterval calls so far
    notified,         \* stories of the last STORIES_UPDATED message
    day,              \* new Date() of the server, in days
    dayTicks,         \* number of server clock steps taken
    articles,         \* the Article collection
    saves,            \* number of articles created so far
    runs,             \* cleanupOldArticles invocations
    lastOk,           \* the last cleanup run that returned success: true
    scheduled,        \* the cron job is registered
    reqs,             \* POST /save requests between findOne and save()
    tg,               \* the new-tab page's toggleArticleType
    stats,            \* getCleanupStats invocation
    probe,            \* a call of isCacheFresh: its arguments and its result
    hr,               \* the new-tab page's handleRefresh (newtab.js)
    ba                \* one call of fetchStoriesFromAPI, request by request

pageVars == <<h, nt, pp>>
refreshVars == <<rf, refreshInterval, timers, timerSeq, notified>>
serverVars == <<day, dayTicks, articles, saves, runs, lastOk, scheduled>>
recordVars == <<reqs, tg, stats>>
vars == <<clock, ticks, cache, fetchSeq, h, nt, pp, rf, refreshInterval,
          timers, timerSeq, notified, day, dayTicks, articles, saves, runs,
          lastOk, scheduled, reqs, tg, stats, probe, hr, ba>>

\* ------------------------------------------------------------ story lists
Min(a, b) == IF a < b THEN a ELSE b

EmptyList == [src |-> "none", seq |-> 0, n |-> 0]

\* the list a source delivers: n stories of delivery number seq
Deliver(src, seq, n) ==
    IF n = 0 THEN EmptyList ELSE [src |-> src, seq |-> seq, n |-> n]

\* Array.prototype.slice(0, k)
Slice(s, k) == IF s.n <= k THEN s ELSE [s EXCEPT !.n = k]

\* the three fixed stories of showSampleStories
SampleStories == [src |-> "sample", seq |-> 0, n |-> 3]

\* ------------------------------------------------------------- cache slot
\* the value of result[CACHE_KEY] when the slot is empty
NULL == [present |-> FALSE, stories |-> EmptyList, timestamp |-> 0]

CacheData(stories, now) == [present |-> TRUE, stories |-> stories, timestamp |-> now]

\* isCacheFresh with the comparison turned round
isCacheFresh_inverted(timestamp, now) ==
    IF timestamp = 0 THEN FALSE ELSE (now - timestamp) > CACHE_DURATION

isCacheFresh(timestamp, now) ==
    IF timestamp = 0 THEN FALSE ELSE (now - timestamp) < CACHE_DURATION

\* isCacheFresh called with a stored timestamp at a time of the clock
ProbeTimes == 0..MaxProbeTime

NoProbe == [timestamp |-> 0, now |-> 0, fresh |-> FALSE, called |-> FALSE]

CheckFresh(timestamp, now) ==
    /\ probe' = [timestamp |-> timestamp, now |-> now,
                 fresh |-> isCacheFresh(timestamp, now), called |-> TRUE]
    /\ UNCHANGED <<clock, ticks, cache, fetchSeq, h, nt, pp, rf, refreshInterval,
                   timers, timerSeq, notified, day, dayTicks, articles, saves,
                   runs, lastOk, scheduled, reqs, tg, stats, hr, ba>>

\* getCachedStories without its try/catch: a storage error propagates
getCachedStories_uncaught(readOk) ==
    [threw |-> ~readOk, val |-> IF readOk THEN cache ELSE NULL]

\* chrome.storage.local.get wrapped in try/catch: a storage error gives null
getCachedStories(readOk) ==
    [threw |-> FALSE, val |-> IF readOk THEN cache ELSE NULL]

\* a write that stores the stories and leaves the timestamp of the slot alone
saveStoriesToCache_keepsTimestamp(cacheData, writeOk) ==
    IF writeOk THEN [cacheData EXCEPT !.timestamp = cache.timestamp] ELSE cache

\* chrome.storage.local.set wrapped in try/catch: a storage error is swallowed
saveStoriesToCache(cacheData, writeOk) ==
    IF writeOk THEN cacheData ELSE cache

\* ---------------------------------------------------------------- sources
\* what a network source can do: HTTP error, timeout / network error, or a
\* reply with n valid stories (n = 0: every item request failed)
Outcomes(lens) ==
    {[kind |-> "http", n |-> 0], [kind |-> "timeout", n |-> 0]}
        \cup {[kind |-> "ok", n |-> n] : n \in lens}

ApiLens == {0, 20}
PopupLens == {0, 1, 10}
ProxyLens == {0, 20}

\* a delivery with at least one story takes the next delivery number
CanDeliver(o) == o.kind = "ok" /\ o.n > 0 => fetchSeq < MaxFetches

NextSeq(o) == IF o.kind = "ok" /\ o.n > 0 THEN fetchSeq + 1 ELSE fetchSeq

\* background.js fetchStoriesFromAPI: throws on a failed id-list request,
\* otherwise returns the valid stories, at most 20
fetchStoriesFromAPI(o) ==
    [threw |-> o.kind # "ok",
     stories |-> IF o.kind = "ok"
                 THEN Deliver("hn", fetchSeq + 1, Min(o.n, ApiStoryLimit))
                 ELSE EmptyList]

\* newtab.js fetchStoriesWithProxy
fetchStoriesWithProxy(o) ==
    [threw |-> o.kind # "ok",
     stories |-> IF o.kind = "ok"
                 THEN Deliver("proxy", fetchSeq + 1, Min(o.n, ProxyStoryLimit))
                 ELSE EmptyList]

\* newtab.js fetchStoriesWithAlternativeProxy
fetchStoriesWithAlternativeProxy(o) ==
    [threw |-> o.kind # "ok",
     stories |-> IF o.kind = "ok"
                 THEN Deliver("alt", fetchSeq + 1, Min(o.n, ProxyStoryLimit))
                 ELSE EmptyList]

\* ------------------------------------------- background: handleFetchStories
\* expired is not part of the message: it records that the entry answered
\* from was older than CACHE_DURATION
NoResp == [success |-> FALSE, stories |-> EmptyList, fromCache |-> FALSE,
           stale |-> FALSE, error |-> FALSE, expired |-> FALSE]

Expired(entry) == entry.present /\ clock - entry.timestamp >= CACHE_DURATION

HIdle == [pc |-> "idle", cacheData |-> NULL, sent |-> 0, resp |-> NoResp,
          net |-> FALSE, readErr |-> FALSE, orphan |-> FALSE, escaped |-> FALSE]

\* sendResponse(r)
sendResponse(hs, r) == [hs EXCEPT !.sent = hs.sent + 1, !.resp = r]

\* lines 309-320: read the cache, answer from it when it is fresh
HRead(i, readOk) ==
    /\ h[i].pc = "read"
    /\ LET r == getCachedStories(readOk)
           hs == [h[i] EXCEPT !.readErr = ~readOk]
       IN  h' = [h EXCEPT ![i] =
                 IF r.threw
                 THEN [hs EXCEPT !.pc = "catch"]
                 ELSE IF r.val.present /\ isCacheFresh(r.val.timestamp, clock)
                 THEN [sendResponse(hs, [NoResp EXCEPT !.success = TRUE,
                                                       !.stories = r.val.stories,
                                                       !.fromCache = TRUE])
                       EXCEPT !.pc = "done"]
                 ELSE [hs EXCEPT !.pc = "fetch"]]
    /\ UNCHANGED <<clock, ticks, cache, fetchSeq, nt, pp>>
    /\ UNCHANGED refreshVars
    /\ UNCHANGED serverVars
    /\ UNCHANGED recordVars
    /\ UNCHANGED <<probe, hr, ba>>

\* lines 322-337: fetch; a non-empty result is stamped for the cache
HFetch(i, o) ==
    /\ h[i].pc = "fetch"
    /\ CanDeliver(o)
    /\ LET r == fetchStoriesFromAPI(o)
           hs == [h[i] EXCEPT !.net = TRUE]
       IN  h' = [h EXCEPT ![i] =
                 IF ~r.threw /\ r.stories.n > 0
                 THEN [hs EXCEPT !.pc = "save",
                                 !.cacheData = CacheData(r.stories, clock)]
                 ELSE [hs EXCEPT !.pc = "catch"]]
    /\ fetchSeq' = NextSeq(o)
    /\ UNCHANGED <<clock, ticks, cache, nt, pp>>
    /\ UNCHANGED refreshVars
    /\ UNCHANGED serverVars
    /\ UNCHANGED recordVars
    /\ UNCHANGED <<probe, hr, ba>>

\* lines 328-334: the cache write lands, then the fetched stories are sent
HSave(i, writeOk) ==
    /\ h[i].pc = "save"
    /\ cache' = saveStoriesToCache(h[i].cacheData, writeOk)
    /\ h' = [h EXCEPT ![i] =
             [sendResponse(h[i], [NoResp EXCEPT !.success = TRUE,
                                                !.stories = h[i].cacheData.stories])
              EXCEPT !.pc = "done", !.cacheData = NULL]]
    /\ UNCHANGED <<clock, ticks, fetchSeq, nt, pp>>
    /\ UNCHANGED refreshVars
    /\ UNCHANGED serverVars
    /\ UNCHANGED recordVars
    /\ UNCHANGED <<probe, hr, ba>>

\* lines 339-358: on any failure answer with the cached stories, if any
HCatch(i, readOk) ==
    /\ h[i].pc = "catch"
    /\ LET r == getCachedStories(readOk)
       IN  h' = [h EXCEPT ![i] =
                 IF r.threw
                 THEN [h[i] EXCEPT !.pc = "done", !.escaped = TRUE]
                 ELSE IF r.val.present /\ r.val.stories.n > 0
                 THEN [sendResponse(h[i], [NoResp EXCEPT !.success = TRUE,
                                                         !.stories = r.val.stories,
                                                         !.fromCache = TRUE,
                                                         !.stale = TRUE,
                                                         !.expired = Expired(r.val)])
                       EXCEPT !.pc = "done", !.readErr = ~readOk]
                 ELSE [sendResponse(h[i], [NoResp EXCEPT !.error = TRUE])
                       EXCEPT !.pc = "done", !.readErr = ~readOk]]
    /\ UNCHANGED <<clock, ticks, cache, fetchSeq, nt, pp>>
    /\ UNCHANGED refreshVars
    /\ UNCHANGED serverVars
    /\ UNCHANGED recordVars
    /\ UNCHANGED <<probe, hr, ba>>

\* the response of a request whose sender stopped waiting is dropped
HDrop(i) ==
    /\ h[i].pc = "done"
    /\ h[i].orphan
    /\ h' = [h EXCEPT ![i] = HIdle]
    /\ UNCHANGED <<clock, ticks, cache, fetchSeq, nt, pp>>
    /\ UNCHANGED refreshVars
    /\ UNCHANGED serverVars
    /\ UNCHANGED recordVars
    /\ UNCHANGED <<probe, hr, ba>>

\* --------------------------------------------------------------- the clock
\* Requests take seconds and the clock counts quarters of an hour: time
\* moves between retrievals, and a timer that is due fires before it moves on.
Quiescent ==
    /\ \A i \in Handlers : h[i].pc = "idle"
    /\ nt.pc \in {"idle", "done"}
    /\ pp.pc \in {"idle", "done"}
    /\ hr.pc \in {"idle", "done"}
    /\ \A i \in Refreshes : rf[i].pc = "idle"

Tick(d) ==
    /\ ticks < MaxTicks
    /\ Quiescent
    /\ \A t \in timers : clock < t.due
    /\ clock' = clock + d
    /\ ticks' = ticks + 1
    /\ UNCHANGED <<cache, fetchSeq, h, nt, pp>>
    /\ UNCHANGED refreshVars
    /\ UNCHANGED serverVars
    /\ UNCHANGED recordVars
    /\ UNCHANGED <<probe, hr, ba>>

\* ------------------------------------------------- newtab.js: loadStories
NtIdle == [pc |-> "idle", attempt |-> 1, hid |-> 0, cacheData |-> NULL,
           stories |-> EmptyList, shown |-> "none", staleWarning |-> FALSE,
           offline |-> FALSE, net |-> FALSE, readErr |-> FALSE,
           via |-> "none", staleServed |-> FALSE, noEntry |-> FALSE,
           escaped |-> FALSE, delays |-> <<>>]

\* a retry that waits one second whatever the attempt
backoff_constant(attempt) == 1000

\* line 534: Math.pow(2, attempt) * 1000 milliseconds before the next attempt
backoff(attempt) == (2 ^ attempt) * 1000

\* loadStories caching the first 10 stories while it displays 20
NtGotStories_cachesTen(s, stories, via) ==
    [s EXCEPT !.stories = Slice(stories, NewTabStoryLimit),
              !.cacheData = CacheData(Slice(stories, PopupStoryLimit), clock),
              !.via = via,
              !.pc = "save"]

\* lines 408-411: a non-empty result is cut to 20 and stamped for the cache
NtGotStories(s, stories, via) ==
    [s EXCEPT !.stories = Slice(stories, NewTabStoryLimit),
              !.cacheData = CacheData(Slice(stories, NewTabStoryLimit), clock),
              !.via = via,
              !.pc = "save"]

\* fetchStoriesWithRetry, lines 527-538: the last failed attempt rethrows
\* (the caller falls through to the proxy), an earlier one waits and retries;
\* delays lists the waits of this loadStories, in milliseconds
NtAttemptFailed(s) ==
    IF s.attempt = maxRetries
    THEN [s EXCEPT !.pc = "proxy"]
    ELSE [s EXCEPT !.attempt = s.attempt + 1, !.pc = "primary",
                   !.delays = Append(s.delays, backoff(s.attempt))]

\* lines 364-384: loadStories is called and reads the cache
NtLoad(readOk) ==
    /\ nt.pc \in {"idle", "done"}
    /\ LET r == getCachedStories(readOk)
           s == [NtIdle EXCEPT !.readErr = ~readOk]
       IN  nt' = IF r.threw
                 THEN [s EXCEPT !.pc = "catch"]
                 ELSE IF r.val.present /\ isCacheFresh(r.val.timestamp, clock)
                 THEN [s EXCEPT !.stories = Slice(r.val.stories, NewTabStoryLimit),
                                !.shown = "cache", !.pc = "done"]
                 ELSE [s EXCEPT !.pc = "primary"]
    /\ UNCHANGED <<clock, ticks, cache, fetchSeq, h, pp>>
    /\ UNCHANGED refreshVars
    /\ UNCHANGED serverVars
    /\ UNCHANGED recordVars
    /\ UNCHANGED <<probe, hr, ba>>

\* fetchStoriesViaBackground, lines 547-554: FETCH_STORIES is sent
NtSend(i) ==
    /\ nt.pc = "primary"
    /\ h[i].pc = "idle"
    /\ \A j \in Handlers : j < i => h[j].pc # "idle"
    /\ h' = [h EXCEPT ![i] = [HIdle EXCEPT !.pc = "read"]]
    /\ nt' = [nt EXCEPT !.pc = "await", !.hid = i, !.net = TRUE]
    /\ UNCHANGED <<clock, ticks, cache, fetchSeq, pp>>
    /\ UNCHANGED refreshVars
    /\ UNCHANGED serverVars
    /\ UNCHANGED recordVars
    /\ UNCHANGED <<probe, hr, ba>>

\* lines 557-560: the message could not be delivered (chrome.runtime.lastError)
NtLastError ==
    /\ nt.pc = "primary"
    /\ nt' = NtAttemptFailed([nt EXCEPT !.net = TRUE])
    /\ UNCHANGED <<clock, ticks, cache, fetchSeq, h, pp>>
    /\ UNCHANGED refreshVars
    /\ UNCHANGED serverVars
    /\ UNCHANGED recordVars
    /\ UNCHANGED <<probe, hr, ba>>

\* lines 562-566 and 520-525: the handler's response arrives
NtResponse ==
    /\ nt.pc = "await"
    /\ h[nt.hid].pc = "done"
    /\ h[nt.hid].sent > 0
    /\ LET r == h[nt.hid].resp
       IN  nt' = IF r.success /\ r.stories.n > 0
                 THEN NtGotStories([nt EXCEPT !.staleServed = r.stale /\ r.expired],
                                   r.stories, "background")
                 ELSE NtAttemptFailed(nt)
    /\ h' = [h EXCEPT ![nt.hid] = HIdle]
    /\ UNCHANGED <<clock, ticks, cache, fetchSeq, pp>>
    /\ UNCHANGED refreshVars
    /\ UNCHANGED serverVars
    /\ UNCHANGED recordVars
    /\ UNCHANGED <<probe, hr, ba>>

\* lines 549-551: no response within 20 s; the handler keeps running
NtTimeout ==
    /\ nt.pc = "await"
    /\ h' = [h EXCEPT ![nt.hid].orphan = TRUE]
    /\ nt' = NtAttemptFailed(nt)
    /\ UNCHANGED <<clock, ticks, cache, fetchSeq, pp>>
    /\ UNCHANGED refreshVars
    /\ UNCHANGED serverVars
    /\ UNCHANGED recordVars
    /\ UNCHANGED <<probe, hr, ba>>

\* lines 393-397 and 408-415: first proxy; an empty result goes to the catch
NtProxy(o) ==
    /\ nt.pc = "proxy"
    /\ CanDeliver(o)
    /\ LET r == fetchStoriesWithProxy(o)
       IN  nt' = IF r.threw THEN [nt EXCEPT !.pc = "alt"]
                 ELSE IF r.stories.n > 0 THEN NtGotStories(nt, r.stories, "proxy")
                 ELSE [nt EXCEPT !.pc = "catch"]
    /\ fetchSeq' = NextSeq(o)
    /\ UNCHANGED <<clock, ticks, cache, h, pp>>
    /\ UNCHANGED refreshVars
    /\ UNCHANGED serverVars
    /\ UNCHANGED recordVars
    /\ UNCHANGED <<probe, hr, ba>>

\* lines 398-415: alternative proxy
NtAlt(o) ==
    /\ nt.pc = "alt"
    /\ CanDeliver(o)
    /\ LET r == fetchStoriesWithAlternativeProxy(o)
       IN  nt' = IF ~r.threw /\ r.stories.n > 0
                 THEN NtGotStories(nt, r.stories, "alt")
                 ELSE [nt EXCEPT !.pc = "catch"]
    /\ fetchSeq' = NextSeq(o)
    /\ UNCHANGED <<clock, ticks, cache, h, pp>>
    /\ UNCHANGED refreshVars
    /\ UNCHANGED serverVars
    /\ UNCHANGED recordVars
    /\ UNCHANGED <<probe, hr, ba>>

\* lines 411-412: the cache write lands and the stories are displayed
NtSave(writeOk) ==
    /\ nt.pc = "save"
    /\ cache' = saveStoriesToCache(nt.cacheData, writeOk)
    /\ nt' = [nt EXCEPT !.shown = "network", !.cacheData = NULL, !.pc = "done"]
    /\ UNCHANGED <<clock, ticks, fetchSeq, h, pp>>
    /\ UNCHANGED refreshVars
    /\ UNCHANGED serverVars
    /\ UNCHANGED recordVars
    /\ UNCHANGED <<probe, hr, ba>>

\* lines 417-433: stale cache, or the sample stories
NtCatch(readOk) ==
    /\ nt.pc = "catch"
    /\ LET r == getCachedStories(readOk)
       IN  nt' = IF r.threw
                 THEN [nt EXCEPT !.pc = "done", !.escaped = TRUE]
                 ELSE IF r.val.present /\ r.val.stories.n > 0
                 THEN [nt EXCEPT !.stories = Slice(r.val.stories, NewTabStoryLimit),
                                 !.shown = "stale", !.staleWarning = TRUE,
                                 !.staleServed = Expired(r.val),
                                 !.readErr = ~readOk, !.pc = "done"]
                 ELSE [nt EXCEPT !.stories = SampleStories,
                                 !.shown = "sample", !.offline = TRUE,
                                 !.noEntry = readOk,
                                 !.readErr = ~readOk, !.pc = "done"]
    /\ UNCHANGED <<clock, ticks, cache, fetchSeq, h, pp>>
    /\ UNCHANGED refreshVars
    /\ UNCHANGED serverVars
    /\ UNCHANGED recordVars
    /\ UNCHANGED <<probe, hr, ba>>

\* ------------------------------------------------ newtab.js: handleRefresh
\* newtab.js lines 75-81: a failed removal is logged and the entry stays
clearCache(removeOk) == IF removeOk THEN NULL ELSE cache

\* old, cleared and fromCache are not fields of the code: old is the entry the
\* cache held when the refresh button was clicked, cleared says that the
\* removal took effect, fromCache that the stories received were answered from
\* the cache
HrIdle == [pc |-> "idle", attempt |-> 1, hid |-> 0, cacheData |-> NULL,
           stories |-> EmptyList, shown |-> "none", old |-> NULL,
           cleared |-> FALSE, fromCache |-> FALSE, delays |-> <<>>]

\* fetchStoriesWithRetry, lines 527-538: the last failed attempt rethrows and
\* handleRefresh shows the error (lines 5221-5224)
HrAttemptFailed(s) ==
    IF s.attempt = maxRetries
    THEN [s EXCEPT !.pc = "done", !.shown = "error"]
    ELSE [s EXCEPT !.attempt = s.attempt + 1, !.pc = "primary",
                   !.delays = Append(s.delays, backoff(s.attempt))]

\* lines 5182-5206: the refresh button is clicked (it is disabled while the
\* handler runs) and the cache is cleared
HrClick(removeOk) ==
    /\ hr.pc \in {"idle", "done"}
    /\ cache' = clearCache(removeOk)
    /\ hr' = [HrIdle EXCEPT !.pc = "primary", !.old = cache, !.cleared = removeOk]
    /\ UNCHANGED <<clock, ticks, fetchSeq, h, nt, pp>>
    /\ UNCHANGED refreshVars
    /\ UNCHANGED serverVars
    /\ UNCHANGED recordVars
    /\ UNCHANGED <<probe, ba>>

\* lines 5212 and 547-554: FETCH_STORIES is sent
HrSend(i) ==
    /\ hr.pc = "primary"
    /\ h[i].pc = "idle"
    /\ \A j \in Handlers : j < i => h[j].pc # "idle"
    /\ h' = [h EXCEPT ![i] = [HIdle EXCEPT !.pc = "read"]]
    /\ hr' = [hr EXCEPT !.pc = "await", !.hid = i]
    /\ UNCHANGED <<clock, ticks, cache, fetchSeq, nt, pp>>
    /\ UNCHANGED refreshVars
    /\ UNCHANGED serverVars
    /\ UNCHANGED recordVars
    /\ UNCHANGED <<probe, ba>>

\* lines 557-560: the message could not be delivered
HrLastError ==
    /\ hr.pc = "primary"
    /\ hr' = HrAttemptFailed(hr)
    /\ UNCHANGED <<clock, ticks, cache, fetchSeq, h, nt, pp>>
    /\ UNCHANGED refreshVars
    /\ UNCHANGED serverVars
    /\ UNCHANGED recordVars
    /\ UNCHANGED <<probe, ba>>

\* lines 562-566, 520-525 and 5213: the handler's response arrives
HrResponse ==
    /\ hr.pc = "await"
    /\ h[hr.hid].pc = "done"
    /\ h[hr.hid].sent > 0
    /\ LET r == h[hr.hid].resp
       IN  hr' = IF r.success /\ r.stories.n > 0
                 THEN [hr EXCEPT !.cacheData = CacheData(r.stories, clock),
                                 !.fromCache = r.fromCache,
                                 !.pc = "save"]
                 ELSE HrAttemptFailed(hr)
    /\ h' = [h EXCEPT ![hr.hid] = HIdle]
    /\ UNCHANGED <<clock, ticks, cache, fetchSeq, nt, pp>>
    /\ UNCHANGED refreshVars
    /\ UNCHANGED serverVars
    /\ UNCHANGED recordVars
    /\ UNCHANGED <<probe, ba>>

\* lines 549-551: no response within 20 s; the handler keeps running
HrTimeout ==
    /\ hr.pc = "await"
    /\ h' = [h EXCEPT ![hr.hid].orphan = TRUE]
    /\ hr' = HrAttemptFailed(hr)
    /\ UNCHANGED <<clock, ticks, cache, fetchSeq, nt, pp>>
    /\ UNCHANGED refreshVars
    /\ UNCHANGED serverVars
    /\ UNCHANGED recordVars
    /\ UNCHANGED <<probe, ba>>

\* lines 5214-5218: the cache write lands and the stories are displayed
HrSave(writeOk) ==
    /\ hr.pc = "save"
    /\ cache' = saveStoriesToCache(hr.cacheData, writeOk)
    /\ hr' = [hr EXCEPT !.stories = Slice(hr.cacheData.stories, NewTabStoryLimit),
                        !.shown = "refreshed", !.cacheData = NULL, !.pc = "done"]
    /\ UNCHANGED <<clock, ticks, fetchSeq, h, nt, pp>>
    /\ UNCHANGED refreshVars
    /\ UNCHANGED serverVars
    /\ UNCHANGED recordVars
    /\ UNCHANGED <<probe, ba>>

\* -------------------------------------------------- popup.js: loadStories
PpIdle == [pc |-> "idle", cacheData |-> NULL, stories |-> EmptyList,
           shown |-> "none", staleWarning |-> FALSE, offline |-> FALSE,
           errorShown |-> FALSE, net |-> FALSE, readErr |-> FALSE,
           staleServed |-> FALSE, noEntry |-> FALSE, escaped |-> FALSE]

\* lines 210-226: loadStories is called and reads the cache
PpLoad(readOk) ==
    /\ pp.pc \in {"idle", "done"}
    /\ LET r == getCachedStories(readOk)
           s == [PpIdle EXCEPT !.readErr = ~readOk]
       IN  pp' = IF r.threw
                 THEN [s EXCEPT !.pc = "catch"]
                 ELSE IF r.val.present /\ isCacheFresh(r.val.timestamp, clock)
                 THEN [s EXCEPT !.stories = Slice(r.val.stories, PopupStoryLimit),
                                !.shown = "cache", !.pc = "done"]
                 ELSE [s EXCEPT !.pc = "fetch"]
    /\ UNCHANGED <<clock, ticks, cache, fetchSeq, h, nt>>
    /\ UNCHANGED refreshVars
    /\ UNCHANGED serverVars
    /\ UNCHANGED recordVars
    /\ UNCHANGED <<probe, hr, ba>>

\* lines 228-253: the id list and up to 10 stories are fetched directly;
\* whatever was collected, even nothing, is stamped for the cache
PpFetch(o) ==
    /\ pp.pc = "fetch"
    /\ CanDeliver(o)
    /\ pp' = IF o.kind # "ok"
             THEN [pp EXCEPT !.net = TRUE, !.pc = "catch"]
             ELSE LET st == Deliver("hn", fetchSeq + 1, Min(o.n, PopupStoryLimit))
                  IN  [pp EXCEPT !.net = TRUE, !.stories = st,
                                 !.cacheData = CacheData(st, clock),
                                 !.pc = "save"]
    /\ fetchSeq' = NextSeq(o)
    /\ UNCHANGED <<clock, ticks, cache, h, nt>>
    /\ UNCHANGED refreshVars
    /\ UNCHANGED serverVars
    /\ UNCHANGED recordVars
    /\ UNCHANGED <<probe, hr, ba>>

\* lines 253-254: the cache write lands and the stories are displayed
PpSave(writeOk) ==
    /\ pp.pc = "save"
    /\ cache' = saveStoriesToCache(pp.cacheData, writeOk)
    /\ pp' = [pp EXCEPT !.shown = "network", !.cacheData = NULL, !.pc = "done"]
    /\ UNCHANGED <<clock, ticks, fetchSeq, h, nt>>
    /\ UNCHANGED refreshVars
    /\ UNCHANGED serverVars
    /\ UNCHANGED recordVars
    /\ UNCHANGED <<probe, hr, ba>>

\* lines 256-269: stale cache, or the error panel
PpCatch(readOk) ==
    /\ pp.pc = "catch"
    /\ LET r == getCachedStories(readOk)
       IN  pp' = IF r.threw
                 THEN [pp EXCEPT !.pc = "done", !.escaped = TRUE]
                 ELSE IF r.val.present
                 THEN [pp EXCEPT !.stories = Slice(r.val.stories, PopupStoryLimit),
                                 !.shown = "stale", !.staleWarning = TRUE,
                                 !.staleServed = Expired(r.val),
                                 !.readErr = ~readOk, !.pc = "done"]
                 ELSE [pp EXCEPT !.shown = "error", !.errorShown = TRUE,
                                 !.noEntry = readOk,
                                 !.readErr = ~readOk, !.pc = "done"]
    /\ UNCHANGED <<clock, ticks, cache, fetchSeq, h, nt>>
    /\ UNCHANGED refreshVars
    /\ UNCHANGED serverVars
    /\ UNCHANGED recordVars
    /\ UNCHANGED <<probe, hr, ba>>

\* ------------------------------- background.js: the background refresher
REFRESH_INTERVAL == 30

\* older and overtaken are not fields of the code: older is the set of
\* refreshes that were in flight when this one started, overtaken says that a
\* refresh started after this one has written the cache
RfIdle == [pc |-> "idle", cacheData |-> NULL, older |-> {}, overtaken |-> FALSE]

\* the refresher's deliveries are numbered up to MaxRefreshFetches
CanRefresh(o) == o.kind = "ok" /\ o.n > 0 => fetchSeq < MaxRefreshFetches

\* refresh i has ended: it is in flight for no one any more
Ended(i, r) ==
    [j \in Refreshes |->
        IF j = i THEN RfIdle ELSE [r[j] EXCEPT !.older = r[j].older \ {i}]]

FreeRefresh(i) ==
    /\ rf[i].pc = "idle"
    /\ \A j \in Refreshes : j < i => rf[j].pc # "idle"

\* refreshStoriesInBackground is called: it runs up to its first await
StartRefresh(i) ==
    [rf EXCEPT ![i] = [RfIdle EXCEPT
        !.pc = "fetch",
        !.older = {j \in Refreshes : rf[j].pc # "idle"}]]

\* lines 149-167: clear the old timer, refresh now, set the new timer
\* startBackgroundRefresh leaving the previous timer running
clearInterval_none(id) == timers

\* lines 153-155: clearInterval(refreshInterval)
clearInterval(id) == {t \in timers : t.id # id}

startBackgroundRefresh(i) ==
    /\ timerSeq < MaxStarts
    /\ FreeRefresh(i)
    /\ rf' = StartRefresh(i)
    /\ timerSeq' = timerSeq + 1
    /\ refreshInterval' = timerSeq + 1
    /\ timers' = clearInterval(refreshInterval)
                    \cup {[id |-> timerSeq + 1, due |-> clock + REFRESH_INTERVAL,
                          fired |-> 0]}
    /\ UNCHANGED <<clock, ticks, cache, fetchSeq, notified>>
    /\ UNCHANGED pageVars
    /\ UNCHANGED serverVars
    /\ UNCHANGED recordVars
    /\ UNCHANGED <<probe, hr, ba>>

\* lines 121-128: chrome.runtime.onInstalled
OnInstalled(i) == startBackgroundRefresh(i)

\* lines 131-134: chrome.runtime.onStartup
OnStartup(i) == startBackgroundRefresh(i)

\* lines 161-164: a setInterval timer fires
IntervalFire(i, t) ==
    /\ t \in timers
    /\ clock >= t.due
    /\ FreeRefresh(i)
    /\ rf' = StartRefresh(i)
    /\ timers' = (timers \ {t}) \cup {[t EXCEPT !.due = t.due + REFRESH_INTERVAL, !.fired = t.fired + 1]}
    /\ UNCHANGED <<clock, ticks, cache, fetchSeq, refreshInterval, timerSeq, notified>>
    /\ UNCHANGED pageVars
    /\ UNCHANGED serverVars
    /\ UNCHANGED recordVars
    /\ UNCHANGED <<probe, hr, ba>>

\* lines 296-299: a FORCE_REFRESH message arrives
OnForceRefresh(i) ==
    /\ FreeRefresh(i)
    /\ rf' = StartRefresh(i)
    /\ UNCHANGED <<clock, ticks, cache, fetchSeq, refreshInterval, timers,
                   timerSeq, notified>>
    /\ UNCHANGED pageVars
    /\ UNCHANGED serverVars
    /\ UNCHANGED recordVars
    /\ UNCHANGED <<probe, hr, ba>>

\* a refresh that takes an empty result for stories
HasStories_any(r) == ~r.threw

\* line 251: stories && stories.length > 0
HasStories(r) == ~r.threw /\ r.stories.n > 0

\* lines 249-265: the fetch settles; a non-empty result is stamped for the
\* cache, anything else ends the refresh silently
RfFetch(i, o) ==
    /\ rf[i].pc = "fetch"
    /\ CanRefresh(o)
    /\ LET r == fetchStoriesFromAPI(o)
       IN  rf' = IF HasStories(r)
                 THEN [rf EXCEPT ![i].pc = "save",
                                 ![i].cacheData = CacheData(r.stories, clock)]
                 ELSE Ended(i, rf)
    /\ fetchSeq' = NextSeq(o)
    /\ UNCHANGED <<clock, ticks, cache, refreshInterval, timers, timerSeq, notified>>
    /\ UNCHANGED pageVars
    /\ UNCHANGED serverVars
    /\ UNCHANGED recordVars
    /\ UNCHANGED <<probe, hr, ba>>

\* line 175: the request for topstories.json is never answered; it is made
\* without an abort signal, so the await never settles
RfHang(i) ==
    /\ rf[i].pc = "fetch"
    /\ rf' = [rf EXCEPT ![i].pc = "hung"]
    /\ UNCHANGED <<clock, ticks, cache, fetchSeq, refreshInterval, timers,
                   timerSeq, notified>>
    /\ UNCHANGED pageVars
    /\ UNCHANGED serverVars
    /\ UNCHANGED recordVars
    /\ UNCHANGED <<probe, hr, ba>>

\* lines 253-257: the cache write lands, then the pages are notified
RfSave(i, writeOk) ==
    /\ rf[i].pc = "save"
    /\ cache' = saveStoriesToCache(rf[i].cacheData, writeOk)
    /\ notified' = rf[i].cacheData.stories
    /\ rf' = Ended(i, [j \in Refreshes |->
                 IF writeOk /\ j \in rf[i].older
                 THEN [rf[j] EXCEPT !.overtaken = TRUE]
                 ELSE rf[j]])
    /\ UNCHANGED <<clock, ticks, fetchSeq, refreshInterval, timers, timerSeq>>
    /\ UNCHANGED pageVars
    /\ UNCHANGED serverVars
    /\ UNCHANGED recordVars
    /\ UNCHANGED <<probe, hr, ba>>

\* ------------------------------------------ backend: the Article collection
READ_LATER_RETENTION_DAYS == 15
SAVED_RETENTION_DAYS == 365
StartDay == 0
DaySteps == {15, 16, 350}
Users == {"u1"}
StoryIds == {"s1", "s2"}
Types == {"read-later", "saved"}

clientVars == <<clock, ticks, cache, fetchSeq, h, nt, pp, rf, refreshInterval,
                timers, timerSeq, notified>>

\* no successful run at the present time with the present records is on record
NoLastOk == [valid |-> FALSE, now |-> 0]

\* the server clock moves between cleanup runs: a run is short against a day
DayTick(d) ==
    /\ dayTicks < MaxDayTicks
    /\ runs = EmptyBag
    /\ reqs = EmptyBag
    /\ tg.pc \in {"idle", "done"}
    /\ stats.pc \in {"idle", "done"}
    /\ day' = day + d
    /\ dayTicks' = dayTicks + 1
    /\ lastOk' = NoLastOk
    /\ UNCHANGED <<articles, saves, runs, scheduled>>
    /\ UNCHANGED clientVars
    /\ UNCHANGED recordVars
    /\ UNCHANGED <<probe, hr, ba>>

\* documents of the collection with the given (userId, storyId, type)
findOne(u, s, t) == {a \in articles : a.user = u /\ a.story = s /\ a.type = t}

\* documents are told apart by _id: a new one is the first copy of its
\* (userId, storyId, type) that is not in the collection
FreeCopy(u, s, t) ==
    LET used == {a.copy : a \in findOne(u, s, t)}
    IN  CHOOSE c \in 1..(Cardinality(used) + 1) :
            c \notin used /\ \A d \in 1..(c - 1) : d \in used

\* new Article({...}) without savedAt: the schema default Date.now applies
newArticle(u, s, t) ==
    [user |-> u, story |-> s, type |-> t, savedAt |-> day,
     copy |-> FreeCopy(u, s, t)]

\* the calls in flight, none of them any longer a repetition of a successful
\* run over the same records
NotIdempotent ==
    LET off(r) == [r EXCEPT !.idem = FALSE]
        on(r) == [r EXCEPT !.idem = TRUE]
    IN  [x \in {off(r) : r \in BagToSet(runs)} |->
            CopiesIn(x, runs) + CopiesIn(on(x), runs)]

\* POST /save: a new record gets savedAt = Date.now(); a second record for
\* the same (userId, storyId, type) is refused.  Story ids carry no meaning of
\* their own, so of two unsaved stories the first is the one saved
SaveArticle(u, s, t) ==
    /\ saves < MaxSaves
    /\ s = "s2" => findOne(u, "s1", t) # {}
    /\ findOne(u, s, t) = {}
    /\ articles' = articles \cup {newArticle(u, s, t)}
    /\ saves' = saves + 1
    /\ lastOk' = NoLastOk
    /\ runs' = NotIdempotent
    /\ UNCHANGED <<day, dayTicks, scheduled>>
    /\ UNCHANGED clientVars
    /\ UNCHANGED recordVars
    /\ UNCHANGED <<probe, hr, ba>>

\* DELETE /:id: findOneAndDelete
DeleteArticle(a) ==
    /\ a \in articles
    /\ articles' = articles \ {a}
    /\ UNCHANGED <<day, dayTicks, saves, runs, lastOk, scheduled>>
    /\ UNCHANGED clientVars
    /\ UNCHANGED recordVars
    /\ UNCHANGED <<probe, hr, ba>>

\* ------------------------------------------ backend: cleanupOldArticles
NoResult == [success |-> FALSE, error |-> FALSE, readLaterDeleted |-> 0,
             savedDeleted |-> 0, totalDeleted |-> 0]

\* new Date(now) with setDate(getDate() - days)
Cutoff(now, days) == now - days

\* deleteMany with $lte in place of $lt
deleteMany_lte(type, cutoff) ==
    {a \in articles : a.type = type /\ a.savedAt <= cutoff}

\* deleteOne in place of deleteMany: one matching record goes
deleteMany_one(type, cutoff) ==
    LET m == {a \in articles : a.type = type /\ a.savedAt < cutoff}
    IN  IF m = {} THEN {} ELSE {CHOOSE a \in m : TRUE}

\* Article.deleteMany({type, savedAt: {$lt: cutoff}}): the matching records
deleteMany(type, cutoff) ==
    {a \in articles : a.type = type /\ a.savedAt < cutoff}

\* the calls of cleanupOldArticles that have not settled yet form a bag: two
\* calls at the same point with the same locals are two copies of one record
Running == {r \in BagToSet(runs) : r.pc \in {"readLater", "saved"}}

\* one call moves from r to r2
RunStep(r, r2) == (runs (-) SetToBag({r})) (+) SetToBag({r2})

\* a version without the catch block: the rejection leaves the call
catchError_rethrow(r) == [r EXCEPT !.pc = "threw"]

\* lines 79-85: the catch block turns a rejected database call into the
\* result {success: false, error: error.message}
catchError(r) ==
    [r EXCEPT !.pc = "done", !.result = [NoResult EXCEPT !.error = TRUE]]

\* lines 39-47: cleanupOldArticles is called and computes its cutoffs
cleanupOldArticles ==
    /\ BagCardinality(runs) < NumRuns
    /\ runs' = runs (+) SetToBag({
           [pc |-> "readLater",
            now |-> day,
            readLaterCutoff |-> Cutoff(day, READ_LATER_RETENTION_DAYS),
            savedCutoff |-> Cutoff(day, SAVED_RETENTION_DAYS),
            readLaterDeleted |-> 0,
            deleted |-> {},
            idem |-> lastOk.valid /\ lastOk.now = day,
            result |-> NoResult]})

\* lines 22-33: the cron job is registered and one run is started, un-awaited
startScheduledCleanup ==
    /\ ~scheduled
    /\ scheduled' = TRUE
    /\ cleanupOldArticles
    /\ UNCHANGED <<day, dayTicks, articles, saves, lastOk>>
    /\ UNCHANGED clientVars
    /\ UNCHANGED recordVars
    /\ UNCHANGED <<probe, hr, ba>>

\* lines 24-27: the daily cron job fires
CronFire ==
    /\ scheduled
    /\ cleanupOldArticles
    /\ UNCHANGED <<day, dayTicks, articles, saves, lastOk, scheduled>>
    /\ UNCHANGED clientVars
    /\ UNCHANGED recordVars
    /\ UNCHANGED <<probe, hr, ba>>

\* lines 125-128
triggerManualCleanup ==
    /\ cleanupOldArticles
    /\ UNCHANGED <<day, dayTicks, articles, saves, lastOk, scheduled>>
    /\ UNCHANGED clientVars
    /\ UNCHANGED recordVars
    /\ UNCHANGED <<probe, hr, ba>>

\* lines 50-53 and 79-85: the read-later bulk delete, or the error result
DeleteReadLater(r, dbOk) ==
    /\ BagIn(r, runs)
    /\ r.pc = "readLater"
    /\ LET gone == deleteMany("read-later", r.readLaterCutoff)
       IN  IF dbOk
           THEN /\ articles' = articles \ gone
                /\ runs' = RunStep(r, [r EXCEPT !.pc = "saved",
                                                !.readLaterDeleted = Cardinality(gone),
                                                !.deleted = gone])
           ELSE /\ articles' = articles
                /\ runs' = RunStep(r, catchError(r))
    /\ UNCHANGED <<day, dayTicks, saves, lastOk, scheduled>>
    /\ UNCHANGED clientVars
    /\ UNCHANGED recordVars
    /\ UNCHANGED <<probe, hr, ba>>

\* lines 56-85: the saved bulk delete and the result, or the error result
DeleteSaved(r, dbOk) ==
    /\ BagIn(r, runs)
    /\ r.pc = "saved"
    /\ LET gone == deleteMany("saved", r.savedCutoff)
       IN  IF dbOk
           THEN /\ articles' = articles \ gone
                /\ runs' = RunStep(r, [r EXCEPT
                       !.pc = "done",
                       !.deleted = r.deleted \cup gone,
                       !.result =
                           [success |-> TRUE, error |-> FALSE,
                            readLaterDeleted |-> r.readLaterDeleted,
                            savedDeleted |-> Cardinality(gone),
                            totalDeleted |-> r.readLaterDeleted + Cardinality(gone)]])
                /\ lastOk' = [valid |-> TRUE, now |-> r.now]
           ELSE /\ articles' = articles
                /\ runs' = RunStep(r, catchError(r))
                /\ lastOk' = lastOk
    /\ UNCHANGED <<day, dayTicks, saves, scheduled>>
    /\ UNCHANGED clientVars
    /\ UNCHANGED recordVars
    /\ UNCHANGED <<probe, hr, ba>>

\* the promise of a finished run settles with its result
RunReturn(r) ==
    /\ BagIn(r, runs)
    /\ r.pc = "done"
    /\ runs' = runs (-) SetToBag({r})
    /\ UNCHANGED <<day, dayTicks, articles, saves, lastOk, scheduled>>
    /\ UNCHANGED clientVars
    /\ UNCHANGED recordVars
    /\ UNCHANGED <<probe, hr, ba>>

\* ------------------------------------------ backend: POST /save in steps
\* a collection without the unique index
DuplicateKey_noIndex(u, s, t) == FALSE

\* line 58: the unique index on (userId, storyId, type) rejects a second
\* document with error 11000
DuplicateKey(u, s, t) == findOne(u, s, t) # {}

\* article.save() went through: the document is in the collection
insertDocument(rec) ==
    /\ articles' = articles \cup {rec}
    /\ lastOk' = NoLastOk
    /\ runs' = NotIdempotent

\* lines 87-118: the request is validated and findOne looks for the record;
\* a record found answers 400, a failed query answers 500 from the catch
\* (of two unsaved stories the first is the one saved, as in SaveArticle)
SaveFind(u, s, t, dbOk) ==
    /\ saves < MaxSaves
    /\ s = "s2" => findOne(u, "s1", t) # {}
    /\ saves' = saves + 1
    /\ reqs' = IF dbOk /\ findOne(u, s, t) = {}
               THEN reqs (+) SetToBag({[user |-> u, story |-> s, type |-> t]})
               ELSE reqs
    /\ UNCHANGED <<day, dayTicks, articles, runs, lastOk, scheduled, tg, stats>>
    /\ UNCHANGED clientVars
    /\ UNCHANGED <<probe, hr, ba>>

\* lines 120-148: article.save() inserts the document and 201 is answered,
\* or the index or the database rejects it and the catch answers 500
SaveInsert(q, dbOk) ==
    /\ BagIn(q, reqs)
    /\ reqs' = reqs (-) SetToBag({q})
    /\ IF dbOk /\ ~DuplicateKey(q.user, q.story, q.type)
       THEN insertDocument(newArticle(q.user, q.story, q.type))
       ELSE UNCHANGED <<articles, lastOk, runs>>
    /\ UNCHANGED <<day, dayTicks, saves, scheduled, tg, stats>>
    /\ UNCHANGED clientVars
    /\ UNCHANGED <<probe, hr, ba>>

\* ------------------------------------------ new tab: toggleArticleType
NoArticle == [user |-> "none", story |-> "none", type |-> "none",
              savedAt |-> 0, copy |-> 0]

TgIdle == [pc |-> "idle", data |-> NoArticle, target |-> "none",
           moved |-> NoArticle, ok |-> FALSE]

OtherType(t) == IF t = "read-later" THEN "saved" ELSE "read-later"

\* a move that carries the old date along
movedArticle_keepsSavedAt(data, target) ==
    [newArticle(data.user, data.story, target) EXCEPT !.savedAt = data.savedAt]

\* lines 2733-2749 with Article.js 121-132: the body of the save request
\* names the story and the target type, and nothing of the old record's date
movedArticle(data, target) == newArticle(data.user, data.story, target)

\* lines 2712-2730 with DELETE /:id: the listed article is deleted, or the
\* request fails (404, 500) and the catch block reports the failure
ToggleDelete(a, dbOk) ==
    /\ tg.pc \in {"idle", "done"}
    /\ saves < MaxSaves
    /\ a \in articles
    /\ saves' = saves + 1
    /\ IF dbOk
       THEN /\ articles' = articles \ {a}
            /\ tg' = [TgIdle EXCEPT !.pc = "find", !.data = a,
                                    !.target = OtherType(a.type)]
       ELSE /\ articles' = articles
            /\ tg' = [TgIdle EXCEPT !.pc = "done", !.data = a,
                                    !.target = OtherType(a.type)]
    /\ UNCHANGED <<day, dayTicks, runs, lastOk, scheduled, reqs, stats>>
    /\ UNCHANGED clientVars
    /\ UNCHANGED <<probe, hr, ba>>

\* lines 2733-2751 with POST /save 87-118: the save request reaches findOne;
\* success: false in the answer is thrown and caught at lines 2784-2791
ToggleFind(dbOk) ==
    /\ tg.pc = "find"
    /\ tg' = IF dbOk /\ findOne(tg.data.user, tg.data.story, tg.target) = {}
             THEN [tg EXCEPT !.pc = "insert"]
             ELSE [tg EXCEPT !.pc = "done"]
    /\ UNCHANGED serverVars
    /\ UNCHANGED <<reqs, stats>>
    /\ UNCHANGED clientVars
    /\ UNCHANGED <<probe, hr, ba>>

\* POST /save 120-148, then lines 2753-2783: the record of the target type is
\* created and the page reports the move, or the save fails and is reported
ToggleInsert(dbOk) ==
    /\ tg.pc = "insert"
    /\ IF dbOk /\ ~DuplicateKey(tg.data.user, tg.data.story, tg.target)
       THEN LET m == movedArticle(tg.data, tg.target)
            IN  /\ insertDocument(m)
                /\ tg' = [tg EXCEPT !.pc = "done", !.moved = m, !.ok = TRUE]
       ELSE /\ UNCHANGED <<articles, lastOk, runs>>
            /\ tg' = [tg EXCEPT !.pc = "done"]
    /\ UNCHANGED <<day, dayTicks, saves, scheduled, reqs, stats>>
    /\ UNCHANGED clientVars
    /\ UNCHANGED <<probe, hr, ba>>

\* ------------------------------------------ backend: getCleanupStats
READ_LATER_WARNING_DAYS == 3
SAVED_WARNING_DAYS == 7
WarningDaySteps == {12, 13, 346}

StatsIdle == [pc |-> "idle", now |-> 0, readLaterWarning |-> 0,
              savedWarning |-> 0, readLaterExpiring |-> 0, savedExpiring |-> 0,
              isNull |-> FALSE]

\* the deletion cutoff in place of the warning cutoff
WarningCutoff_noWarning(now, days, warning) == now - days

\* lines 96-100: setDate(getDate() - (retention - warning))
WarningCutoff(now, days, warning) == now - (days - warning)

\* Article.countDocuments({type, savedAt: {$lt: cutoff}})
countDocuments(type, cutoff) ==
    Cardinality({a \in articles : a.type = type /\ a.savedAt < cutoff})

\* lines 91-100: getCleanupStats is called and computes its two cutoffs
getCleanupStats ==
    /\ stats.pc \in {"idle", "done"}
    /\ stats' = [StatsIdle EXCEPT
           !.pc = "readLater",
           !.now = day,
           !.readLaterWarning =
               WarningCutoff(day, READ_LATER_RETENTION_DAYS, READ_LATER_WARNING_DAYS),
           !.savedWarning =
               WarningCutoff(day, SAVED_RETENTION_DAYS, SAVED_WARNING_DAYS)]
    /\ UNCHANGED serverVars
    /\ UNCHANGED <<reqs, tg>>
    /\ UNCHANGED clientVars
    /\ UNCHANGED <<probe, hr, ba>>

\* lines 102-105 and 116-119: the read-later count, or null from the catch
StatsCountReadLater(dbOk) ==
    /\ stats.pc = "readLater"
    /\ stats' = IF dbOk
                THEN [stats EXCEPT
                         !.pc = "saved",
                         !.readLaterExpiring =
                             countDocuments("read-later", stats.readLaterWarning)]
                ELSE [stats EXCEPT !.pc = "done", !.isNull = TRUE]
    /\ UNCHANGED serverVars
    /\ UNCHANGED <<reqs, tg>>
    /\ UNCHANGED clientVars
    /\ UNCHANGED <<probe, hr, ba>>

\* lines 107-119: the saved count and the returned pair, or null
StatsCountSaved(dbOk) ==
    /\ stats.pc = "saved"
    /\ stats' = IF dbOk
                THEN [stats EXCEPT
                         !.pc = "done",
                         !.savedExpiring =
                             countDocuments("saved", stats.savedWarning)]
                ELSE [stats EXCEPT !.pc = "done", !.isNull = TRUE]
    /\ UNCHANGED serverVars
    /\ UNCHANGED <<reqs, tg>>
    /\ UNCHANGED clientVars
    /\ UNCHANGED <<probe, hr, ba>>

\* ----------------------- background.js: fetchStoriesFromAPI, its requests
\* The story ids of the list are numbered 1, 2, ... in the order of the list.
ItemLimit == 30
IdListLens == {0, 3, 40}

\* what an item request can come to: a story, a response that is not ok, the
\* 5-second abort, a body that is no JSON, the JSON value null, or an object
\* that has no title (a deleted item)
ItemOutcomes == {"story", "http", "timeout", "unparsable", "null", "untitled"}

\* lines 195-214: what the request's promise resolves to
IsNull(kind) == kind \in {"http", "timeout", "unparsable", "null"}

\* newtab.js lines 621 and 735: the proxy loop keeps only a story with a title
IsRejected(kind) == kind # "story"

\* what the loop of the source skips
Skipped(src, kind) == IF src = "hn" THEN IsNull(kind) ELSE IsRejected(kind)

\* the ids taken from the list: 30 (background.js line 184), 20 (newtab.js 614)
TakeLimit(src) == IF src = "hn" THEN ItemLimit ELSE ProxyStoryLimit

\* every request in one batch
batchSize_all == ItemLimit

\* line 187
batchSize == 5

\* the requests of the proxy loop go one by one
Step(src) == IF src = "hn" THEN batchSize ELSE 1

\* src: "hn" for fetchStoriesFromAPI, "proxy" for fetchStoriesWithProxy;
\* pending: the item requests in flight; nulls: the ids of this batch that the
\* loop skips; failed: the ids whose request failed or gave no object;
\* untitled: the ids that gave an object without a title; down: every request
\* of this batch fails; anomalies: the requests outside such a batch that gave
\* no story
BaIdle == [pc |-> "idle", src |-> "hn", n |-> 0, i |-> 0, pending |-> {},
           nulls |-> {}, failed |-> {}, untitled |-> {}, down |-> FALSE,
           anomalies |-> 0, stories |-> <<>>, issued |-> 0, ret |-> <<>>]

RECURSIVE Collect(_, _, _)
\* a filter that keeps every result of the batch
Collect_all(lo, hi, nulls) == [k \in 1..(hi - lo + 1) |-> lo + k - 1]

\* batchResults.filter(story => story !== null) over the ids lo..hi
Collect(lo, hi, nulls) ==
    IF lo > hi THEN <<>>
    ELSE (IF lo \in nulls THEN <<>> ELSE <<lo>>) \o Collect(lo + 1, hi, nulls)

\* background.js line 236: stories.slice(0, 20); newtab.js line 633 returns
\* the stories, which are 20 at most
Return(b) ==
    [b EXCEPT !.pc = "done", !.ret = SubSeq(b.stories, 1, Min(Len(b.stories), ApiStoryLimit))]

BaFrame ==
    /\ UNCHANGED clientVars
    /\ UNCHANGED serverVars
    /\ UNCHANGED recordVars
    /\ UNCHANGED <<probe, hr>>

\* line 170: fetchStoriesFromAPI is called, or newtab.js line 572:
\* fetchStoriesWithProxy
BaCall(src) ==
    /\ ba.pc \in {"idle", "done", "threw"}
    /\ ba' = [BaIdle EXCEPT !.pc = "list", !.src = src]
    /\ BaFrame

\* lines 175-184: the id list arrives, or the request fails and the call throws
BaList(ok, len) ==
    /\ ba.pc = "list"
    /\ ba' = IF ~ok THEN [ba EXCEPT !.pc = "threw"]
             ELSE IF len = 0 THEN Return(ba)
             ELSE [ba EXCEPT !.pc = "loop", !.n = Min(len, TakeLimit(ba.src))]
    /\ BaFrame

\* lines 190-216: the next batch of requests is issued; the proxy's requests,
\* twenty single ones, fail as a whole only from the first one on
BaIssue(down) ==
    /\ ba.pc = "loop"
    /\ (ba.src = "proxy" /\ down) => (ba.i = 0 \/ ba.down)
    /\ LET batch == {k \in 1..ba.n : ba.i < k /\ k <= ba.i + Step(ba.src)}
       IN  ba' = [ba EXCEPT !.pc = "batch", !.pending = batch, !.nulls = {},
                            !.down = down,
                            !.issued = ba.issued + Cardinality(batch)]
    /\ BaFrame

\* lines 195-214: one request of the batch settles
BaSettle(k, kind) ==
    /\ ba.pc = "batch"
    /\ k \in ba.pending
    /\ IF ba.down THEN kind = "http"
       ELSE kind # "story" => ba.anomalies < MaxItemAnomalies
    /\ ba' = [ba EXCEPT
                !.pending = ba.pending \ {k},
                !.nulls = IF Skipped(ba.src, kind) THEN ba.nulls \cup {k}
                          ELSE ba.nulls,
                !.failed = IF IsNull(kind) THEN ba.failed \cup {k} ELSE ba.failed,
                !.untitled = IF kind = "untitled" THEN ba.untitled \cup {k}
                             ELSE ba.untitled,
                !.anomalies = IF ~ba.down /\ kind # "story"
                              THEN ba.anomalies + 1 ELSE ba.anomalies]
    /\ BaFrame

\* lines 218-236: Promise.all resolves; the stories of the batch are kept,
\* and the loop goes on unless 20 are there or the ids are used up
BaCollect ==
    /\ ba.pc = "batch"
    /\ ba.pending = {}
    /\ LET b == [ba EXCEPT
                    !.stories = ba.stories \o
                        Collect(ba.i + 1, Min(ba.i + Step(ba.src), ba.n), ba.nulls),
                    !.nulls = {}]
       IN  ba' = IF \/ ba.src = "hn" /\ Len(b.stories) >= ApiStoryLimit
                    \/ ~(ba.i + Step(ba.src) < ba.n)
                 THEN Return(b)
                 ELSE [b EXCEPT !.pc = "loop", !.i = ba.i + Step(ba.src)]
    /\ BaFrame

\* ------------------------------------------------------ the specifications
Init ==
    /\ clock = StartClock
    /\ ticks = 0
    /\ cache = NULL
    /\ fetchSeq = 0
    /\ h = [i \in Handlers |-> HIdle]
    /\ nt = NtIdle
    /\ pp = PpIdle
    /\ rf = [i \in Refreshes |-> RfIdle]
    /\ refreshInterval = 0
    /\ timers = {}
    /\ timerSeq = 0
    /\ notified = EmptyList
    /\ day = StartDay
    /\ dayTicks = 0
    /\ articles = {}
    /\ saves = 0
    /\ runs = EmptyBag
    /\ lastOk = NoLastOk
    /\ scheduled = FALSE
    /\ reqs = EmptyBag
    /\ tg = TgIdle
    /\ stats = StatsIdle
    /\ probe = NoProbe
    /\ hr = HrIdle
    /\ ba = BaIdle

\* the new-tab page and the background handler it talks to
Next ==
    \/ \E d \in TickSteps : Tick(d)
    \/ \E i \in Handlers, ok \in BOOLEAN : HRead(i, ok)
    \/ \E i \in Handlers, o \in Outcomes(ApiLens) : HFetch(i, o)
    \/ \E i \in Handlers, ok \in BOOLEAN : HSave(i, ok)
    \/ \E i \in Handlers, ok \in BOOLEAN : HCatch(i, ok)
    \/ \E i \in Handlers : HDrop(i)
    \/ \E ok \in BOOLEAN : NtLoad(ok)
    \/ \E i \in Handlers : NtSend(i)
    \/ NtLastError
    \/ NtResponse
    \/ NtTimeout
    \/ \E o \in Outcomes(ProxyLens) : NtProxy(o)
    \/ \E o \in Outcomes(ProxyLens) : NtAlt(o)
    \/ \E ok \in BOOLEAN : NtSave(ok)
    \/ \E ok \in BOOLEAN : NtCatch(ok)

Spec == Init /\ [][Next]_vars

\* the new-tab page with its refresh button
ForceNext ==
    \/ \E d \in TickSteps : Tick(d)
    \/ \E i \in Handlers, ok \in BOOLEAN : HRead(i, ok)
    \/ \E i \in Handlers, o \in Outcomes(ApiLens) : HFetch(i, o)
    \/ \E i \in Handlers, ok \in BOOLEAN : HSave(i, ok)
    \/ \E i \in Handlers, ok \in BOOLEAN : HCatch(i, ok)
    \/ \E i \in Handlers : HDrop(i)
    \/ \E ok \in BOOLEAN : NtLoad(ok)
    \/ \E i \in Handlers : NtSend(i)
    \/ NtLastError
    \/ NtResponse
    \/ NtTimeout
    \/ \E o \in Outcomes(ProxyLens) : NtProxy(o)
    \/ \E o \in Outcomes(ProxyLens) : NtAlt(o)
    \/ \E ok \in BOOLEAN : NtSave(ok)
    \/ \E ok \in BOOLEAN : NtCatch(ok)
    \/ \E ok \in BOOLEAN : HrClick(ok)
    \/ \E i \in Handlers : HrSend(i)
    \/ HrLastError
    \/ HrResponse
    \/ HrTimeout
    \/ \E ok \in BOOLEAN : HrSave(ok)

ForceSpec == Init /\ [][ForceNext]_vars

\* the popup
PopupNext ==
    \/ \E d \in TickSteps : Tick(d)
    \/ \E ok \in BOOLEAN : PpLoad(ok)
    \/ \E o \in Outcomes(PopupLens) : PpFetch(o)
    \/ \E ok \in BOOLEAN : PpSave(ok)
    \/ \E ok \in BOOLEAN : PpCatch(ok)

PopupSpec == Init /\ [][PopupNext]_vars

\* isCacheFresh over timestamps and times up to MaxProbeTime minutes
FreshNext == \E timestamp \in ProbeTimes, now \in ProbeTimes : CheckFresh(timestamp, now)

FreshSpec == Init /\ [][FreshNext]_vars

\* the background refresher
RefreshNext ==
    \/ \E d \in TickSteps : Tick(d)
    \/ \E i \in Refreshes : OnInstalled(i)
    \/ \E i \in Refreshes : OnStartup(i)
    \/ \E i \in Refreshes, t \in timers : IntervalFire(i, t)
    \/ \E i \in Refreshes : OnForceRefresh(i)
    \/ \E i \in Refreshes, o \in Outcomes(ApiLens) : RfFetch(i, o)
    \/ \E i \in Refreshes, ok \in BOOLEAN : RfSave(i, ok)

RefreshSpec == Init /\ [][RefreshNext]_vars

\* the background refresher with a source that may never answer; every
\* request that is answered, and every storage call, settles
RefreshHangNext ==
    \/ \E d \in TickSteps : Tick(d)
    \/ \E i \in Refreshes : OnInstalled(i)
    \/ \E i \in Refreshes : OnStartup(i)
    \/ \E i \in Refreshes, t \in timers : IntervalFire(i, t)
    \/ \E i \in Refreshes : OnForceRefresh(i)
    \/ \E i \in Refreshes, o \in Outcomes(ApiLens) : RfFetch(i, o)
    \/ \E i \in Refreshes : RfHang(i)
    \/ \E i \in Refreshes, ok \in BOOLEAN : RfSave(i, ok)

RefreshHangSpec ==
    /\ Init /\ [][RefreshHangNext]_vars
    /\ \A i \in Refreshes :
          /\ WF_vars(RfHang(i) \/ \E o \in Outcomes(ApiLens) : RfFetch(i, o))
          /\ WF_vars(\E ok \in BOOLEAN : RfSave(i, ok))

\* one call of fetchStoriesFromAPI or fetchStoriesWithProxy after the other,
\* request by request
BatchNext ==
    \/ \E src \in {"hn", "proxy"} : BaCall(src)
    \/ \E ok \in BOOLEAN, len \in IdListLens : BaList(ok, len)
    \/ \E down \in BOOLEAN : BaIssue(down)
    \/ \E k \in 1..ItemLimit, kind \in ItemOutcomes : BaSettle(k, kind)
    \/ BaCollect

BatchSpec == Init /\ [][BatchNext]_vars

\* the backend's cleanup service and the article routes
CleanupNext ==
    \/ \E d \in DaySteps : DayTick(d)
    \/ \E u \in Users, s \in StoryIds, t \in Types : SaveArticle(u, s, t)
    \/ \E a \in articles : DeleteArticle(a)
    \/ startScheduledCleanup
    \/ CronFire
    \/ triggerManualCleanup
    \/ \E r \in BagToSet(runs), ok \in BOOLEAN : DeleteReadLater(r, ok)
    \/ \E r \in BagToSet(runs), ok \in BOOLEAN : DeleteSaved(r, ok)
    \/ \E r \in BagToSet(runs) : RunReturn(r)

CleanupSpec == Init /\ [][CleanupNext]_vars

\* the article routes in steps, the page's move between lists, and cleanup
\* runs one after the other (runs that overlap are CleanupSpec's subject)
ArticlesNext ==
    \/ \E d \in DaySteps : DayTick(d)
    \/ \E u \in Users, s \in StoryIds, t \in Types, ok \in BOOLEAN :
          SaveFind(u, s, t, ok)
    \/ \E q \in BagToSet(reqs), ok \in BOOLEAN : SaveInsert(q, ok)
    \/ \E a \in articles : DeleteArticle(a)
    \/ \E a \in articles, ok \in BOOLEAN : ToggleDelete(a, ok)
    \/ \E ok \in BOOLEAN : ToggleFind(ok)
    \/ \E ok \in BOOLEAN : ToggleInsert(ok)
    \/ runs = EmptyBag /\ triggerManualCleanup
    \/ \E r \in BagToSet(runs), ok \in BOOLEAN : DeleteReadLater(r, ok)
    \/ \E r \in BagToSet(runs), ok \in BOOLEAN : DeleteSaved(r, ok)
    \/ \E r \in BagToSet(runs) : RunReturn(r)

ArticlesSpec == Init /\ [][ArticlesNext]_vars

\* the expiring-soon report over a collection that grows and ages
StatsNext ==
    \/ \E d \in WarningDaySteps : DayTick(d)
    \/ \E u \in Users, s \in StoryIds, t \in Types : SaveArticle(u, s, t)
    \/ \E a \in articles : DeleteArticle(a)
    \/ getCleanupStats
    \/ \E ok \in BOOLEAN : StatsCountReadLater(ok)
    \/ \E ok \in BOOLEAN : StatsCountSaved(ok)

StatsSpec == Init /\ [][StatsNext]_vars

\* a database call that was issued settles, and a settled promise is delivered
CleanupLiveSpec ==
    /\ Init /\ [][CleanupNext]_vars
    /\ WF_vars(\E r \in BagToSet(runs), ok \in BOOLEAN : DeleteReadLater(r, ok))
    /\ WF_vars(\E r \in BagToSet(runs), ok \in BOOLEAN : DeleteSaved(r, ok))
    /\ WF_vars(\E r \in BagToSet(runs) : RunReturn(r))

\* ------------------------------------------------------------ properties
\* what a page reports about the stories it shows: the offline message goes
\* with the sample stories, the stale-data warning with stale stories, and
\* stories shown with neither are presented as current
Origin(v) ==
    IF v.offline THEN "fallback"
    ELSE IF v.staleWarning THEN "stale"
    ELSE IF v.shown = "error" THEN "error"
    ELSE "fresh"

\* C1: content retrieval never raises: handleFetchStories sends at most one
\* response, exactly one once it has finished, and no exception escapes the
\* handler or the new-tab page's loadStories, whatever the cache read and
\* the sources do.
C1_NeverRaises ==
    /\ \A i \in Handlers :
          /\ h[i].sent <= 1
          /\ h[i].pc = "done" => h[i].sent = 1
          /\ ~h[i].escaped
    /\ ~nt.escaped

\* a retrieve that talked to the network, failed everywhere and then failed
\* to read the cache as well, ending on the sample stories
C1_Witness ==
    nt.pc = "done" /\ nt.net /\ nt.readErr /\ nt.shown = "sample"

\* C2: a retrieve whose cache read returns an entry younger than 30 minutes
\* returns that entry's stories and makes no request to any source, in the
\* new-tab page and in the background handler.
C2_FreshHitNoNetwork ==
    [][ (cache.present /\ clock - cache.timestamp < 30) =>
          /\ (nt.pc \in {"idle", "done"} /\ nt' # nt /\ ~nt'.readErr) =>
                /\ nt'.pc = "done"
                /\ nt'.stories = cache.stories
                /\ Origin(nt') = "fresh"
                /\ ~nt'.net
                /\ fetchSeq' = fetchSeq
          /\ \A i \in Handlers :
                (h[i].pc = "read" /\ h'[i].pc # "read" /\ ~h'[i].readErr) =>
                   /\ h'[i].pc = "done"
                   /\ h'[i].resp.success
                   /\ h'[i].resp.stories = cache.stories
                   /\ ~h'[i].net
                   /\ fetchSeq' = fetchSeq ]_vars

\* the new-tab page showing a non-empty fresh entry straight from the cache
C2_Witness ==
    /\ nt.pc = "done" /\ nt.shown = "cache" /\ ~nt.net
    /\ nt.stories.n > 0 /\ nt.stories = cache.stories

\* C3: stories served from a cache entry older than the TTL because the
\* source failed are marked stale: the handler's response carries stale, and
\* the page shows them with the stale-data warning, never as fresh.
C3_StaleIsMarked ==
    /\ \A i \in Handlers :
          (h[i].pc = "done" /\ h[i].resp.expired) => h[i].resp.stale
    /\ (nt.pc = "done" /\ nt.staleServed) =>
          (Origin(nt) = "stale" /\ nt.staleWarning)

\* C4: a consumer whose sources all failed and that found no cache entry
\* shows the sample stories with the offline message.
C4_PlaceholderEverywhere ==
    /\ (nt.pc = "done" /\ nt.noEntry) =>
          (nt.stories = SampleStories /\ Origin(nt) = "fallback")
    /\ (pp.pc = "done" /\ pp.noEntry) =>
          (pp.stories = SampleStories /\ Origin(pp) = "fallback")

C6_SingleFlight ==
    Cardinality({i \in Refreshes : rf[i].pc # "idle"}) <= 1

\* C7: a cleanup run deletes only records saved strictly before now minus
\* their category's window (read-later 15 days, saved 365 days), and when it
\* returns success no such record is left and its counts are the numbers of
\* records it deleted.
C7_DeletesExactlyExpired ==
    \A r \in BagToSet(runs) :
        LET window(a) == IF a.type = "read-later" THEN 15 ELSE 365
        IN  /\ \A a \in r.deleted : a.savedAt < r.now - window(a)
            /\ (r.pc = "done" /\ r.result.success) =>
                  /\ \A a \in articles : ~(a.savedAt < r.now - window(a))
                  /\ r.result.totalDeleted = Cardinality(r.deleted)
                  /\ r.result.readLaterDeleted =
                        Cardinality({a \in r.deleted : a.type = "read-later"})
                  /\ r.result.savedDeleted =
                        Cardinality({a \in r.deleted : a.type = "saved"})

\* a run that deleted a read-later record aged 16 days and kept a saved one
\* of the same age
C7_Witness ==
    \E r \in BagToSet(runs) :
        /\ r.pc = "done" /\ r.result.success
        /\ \E a \in r.deleted :
              a.type = "read-later" /\ r.now - a.savedAt = 16
        /\ \E b \in articles :
              b.type = "saved" /\ r.now - b.savedAt = 16

\* C8: a run started with the same now as the last successful run, with no
\* record added since, deletes nothing and reports totalDeleted = 0.
C8_Idempotent ==
    \A r \in BagToSet(runs) :
        r.idem =>
            /\ r.deleted = {}
            /\ r.readLaterDeleted = 0
            /\ (r.pc = "done" /\ r.result.success) =>
                  r.result.totalDeleted = 0

\* a second run at the same now has returned success over a non-empty store
C8_Witness ==
    \E r \in BagToSet(runs) :
        /\ r.idem /\ r.pc = "done" /\ r.result.success
        /\ articles # {}
        /\ day >= 16

\* C9: a run that reports success: false has an error message and has
\* deleted no record.
C9_NoPartialDeletion ==
    \A r \in BagToSet(runs) :
        (r.pc = "done" /\ ~r.result.success) =>
            (r.result.error /\ r.deleted = {})

\* C10: no two executions of the cleanup run overlap.
C10_NeverRunningTwice ==
    /\ Cardinality(Running) <= 1
    /\ \A r \in Running : CopiesIn(r, runs) <= 1

\* C11: a cleanup run never leaves cleanupOldArticles by an exception, a
\* finished run carries either success: true with its counts or success:
\* false with an error message, and runs in flight go on to finish and
\* return: whenever a run is in flight some run finishes, and whenever as
\* many runs are in flight as can be, one of them returns.
C11_RunsComplete ==
    /\ [](\A r \in BagToSet(runs) :
            /\ r.pc # "threw"
            /\ r.pc = "done" =>
                  \/ /\ r.result.success /\ ~r.result.error
                     /\ r.result.totalDeleted =
                           r.result.readLaterDeleted + r.result.savedDeleted
                  \/ /\ ~r.result.success /\ r.result.error)
    /\ (Running # {}) ~> (\E r \in BagToSet(runs) : r.pc = "done")
    /\ (BagCardinality(runs) = NumRuns) ~> (BagCardinality(runs) < NumRuns)

\* the run started by startScheduledCleanup met a database error and finished
\* with success: false, while a second run finished with success: true
C11_Witness ==
    /\ scheduled
    /\ \E r \in BagToSet(runs) : r.pc = "done" /\ ~r.result.success /\ r.result.error
    /\ \E r \in BagToSet(runs) : r.pc = "done" /\ r.result.success

\* C12: when a move from read-later to saved is completed, the record of the
\* saved list carries the time of the move as savedAt, no read-later record
\* of that story is counted as expiring soon, and no cleanup run within the
\* saved window of the move deletes the moved record - in particular not the
\* run that would have deleted the old read-later record.
C12_MoveResetsSavedAt ==
    /\ [][(tg.pc = "insert" /\ tg'.pc = "done" /\ tg'.ok /\ tg.target = "saved") =>
            /\ tg'.moved \in articles'
            /\ tg'.moved.type = "saved" /\ tg'.moved.savedAt = day
            /\ tg'.moved \notin (deleteMany("saved", Cutoff(day, SAVED_RETENTION_DAYS)))'
            /\ ~ \E a \in articles' :
                  /\ a.user = tg.data.user /\ a.story = tg.data.story
                  /\ a.type = "read-later"
                  /\ a.savedAt < WarningCutoff(day, READ_LATER_RETENTION_DAYS,
                                               READ_LATER_WARNING_DAYS)]_vars
    /\ [](tg.pc = "done" /\ tg.ok /\ tg.target = "saved" =>
            \A r \in BagToSet(runs) :
                r.now - tg.moved.savedAt <= SAVED_RETENTION_DAYS =>
                    tg.moved \notin r.deleted)

\* a read-later record past its 15 days was moved, and a cleanup run after
\* the move has returned success with the moved record still in the store
C12_Witness ==
    /\ tg.pc = "done" /\ tg.ok /\ tg.target = "saved"
    /\ tg.data.savedAt < Cutoff(day, READ_LATER_RETENTION_DAYS)
    /\ tg.moved \in articles
    /\ \E r \in BagToSet(runs) :
          r.pc = "done" /\ r.result.success /\ r.now >= tg.moved.savedAt

\* C13: the Article collection never holds two records with the same
\* (userId, storyId, type).
C13_OnePerTuple ==
    \A a \in articles, b \in articles :
        (a.user = b.user /\ a.story = b.story /\ a.type = b.type) => a = b

\* a save request that passed findOne is about to insert a record that is by
\* now in the collection: two saves of one tuple overlapped
C13_Witness ==
    \E q \in BagToSet(reqs) : DuplicateKey(q.user, q.story, q.type)

\* C14: getCleanupStats never changes the collection, and its counts are the
\* read-later records saved more than 12 days before the call and the saved
\* records saved more than 358 days before it.
C14_StatsCountsNoEffect ==
    [][ /\ stats' # stats => articles' = articles
        /\ (stats.pc = "readLater" /\ stats'.pc = "saved") =>
              stats'.readLaterExpiring =
                  Cardinality({a \in articles :
                      a.type = "read-later" /\ a.savedAt < stats.now - 12})
        /\ (stats.pc = "saved" /\ stats'.pc = "done" /\ ~stats'.isNull) =>
              stats'.savedExpiring =
                  Cardinality({a \in articles :
                      a.type = "saved" /\ a.savedAt < stats.now - 358}) ]_vars

\* a report that counted a read-later record older than 12 days and left out
\* a saved record of exactly 358 days
C14_Witness ==
    /\ stats.pc = "done" /\ ~stats.isNull
    /\ stats.readLaterExpiring = 1 /\ stats.savedExpiring = 0
    /\ \E a \in articles : a.type = "read-later" /\ stats.now - a.savedAt > 12
    /\ \E a \in articles : a.type = "saved" /\ stats.now - a.savedAt = 358

\* C15: isCacheFresh(t0) evaluated at now is (now - t0 < 30 minutes), for
\* every t0 and now, t0 = 0 included.
C15_FreshIffYoung ==
    probe.called => (probe.fresh <=> (probe.now - probe.timestamp < 30))

\* C16: whenever the cache slot changes, its new value is the one object
\* {stories, timestamp} that a single saveStoriesToCache call built, stamped
\* with the time of that call: nothing of the entry before is left.
C16_SetReplacesWhole ==
    [][cache' # cache =>
          /\ cache'.present /\ cache'.timestamp = clock
          /\ \/ \E i \in Handlers : h[i].pc = "save" /\ h'[i].pc = "done"
                                    /\ cache' = h[i].cacheData
             \/ nt.pc = "save" /\ nt'.pc = "done" /\ cache' = nt.cacheData ]_vars

\* an entry written at an earlier time has been replaced by a later write
C16_Witness ==
    /\ cache.present /\ cache.timestamp = clock /\ clock >= StartClock + CACHE_DURATION
    /\ nt.pc = "done" /\ nt.shown = "network" /\ nt.staleServed

\* C17: a refresh that was overtaken - one started after it has already
\* written the cache - does not change the cache entry when its own write
\* comes.
C17_StaleWriteRejected ==
    [][\A j \in Refreshes :
          (rf[j].pc = "save" /\ rf[j].overtaken /\ rf'[j].pc = "idle") =>
              cache' = cache]_vars

\* C18: when the refresh button has cleared the cache, the stories this
\* refresh receives are never the stories of the entry it cleared, answered
\* from the cache.
C18_OldItemsNotReturned ==
    (hr.cleared /\ hr.old.present /\ hr.pc = "save" /\ hr.fromCache) =>
        hr.cacheData.stories # hr.old.stories

\* exactly one refreshStoriesInBackground is initiated by this step
OneRefreshInitiated ==
    \E i \in Refreshes :
        /\ rf[i].pc = "idle" /\ rf'[i].pc = "fetch"
        /\ \A j \in Refreshes \ {i} : rf'[j] = rf[j]

\* C19: a start initiates one refresh at once and leaves exactly one timer,
\* the new one, due 30 minutes later; a timer fires only when it is due,
\* initiates one refresh and is due again 30 minutes after its last due time;
\* no timer is a whole interval overdue; at most one timer is ever active.
C19_OneTimerOneRefreshPerInterval ==
    /\ [](Cardinality(timers) <= 1)
    /\ [](\A t \in timers : t.id = refreshInterval /\ clock < t.due + REFRESH_INTERVAL)
    /\ [][timerSeq' # timerSeq =>
            /\ OneRefreshInitiated
            /\ refreshInterval' = timerSeq'
            /\ timers' = {[id |-> timerSeq', due |-> clock + REFRESH_INTERVAL,
                           fired |-> 0]}]_vars
    /\ [][(timerSeq' = timerSeq /\ timers' # timers) =>
            \E t \in timers :
                /\ clock >= t.due
                /\ OneRefreshInitiated
                /\ timers' = {[t EXCEPT !.due = t.due + REFRESH_INTERVAL,
                                         !.fired = t.fired + 1]}]_vars

\* started twice, and the one timer left has fired once
C19_Witness ==
    /\ timerSeq = 2
    /\ clock >= StartClock + REFRESH_INTERVAL
    /\ timers = {[id |-> 2, due |-> StartClock + 2 * REFRESH_INTERVAL, fired |-> 1]}

\* C20: a loadStories that finds no entry, or one of 31 minutes or more,
\* goes to the network; the first retrieval, answered by the background,
\* populates the empty cache with the stories it shows as fresh; a loadStories
\* that ends over an entry of 31 minutes or more, with no delivery since the
\* cached one, shows that entry's stories as stale and leaves the entry as it
\* was.
C20_EndToEnd ==
    /\ [][(/\ nt.pc \in {"idle", "done"} /\ nt' # nt /\ ~nt'.readErr
           /\ (~cache.present \/ clock - cache.timestamp >= CACHE_DURATION + 1))
             => nt'.pc = "primary"]_vars
    /\ [][(/\ nt.pc = "save" /\ nt'.pc = "done" /\ nt.via = "background"
           /\ ~cache.present /\ cache'.present)
             => /\ nt'.shown = "network" /\ ~nt'.staleWarning
                /\ cache'.stories = nt'.stories
                /\ cache'.timestamp = clock]_vars
    /\ [][(/\ nt.pc \notin {"idle", "done"} /\ nt'.pc = "done"
           /\ ~nt'.readErr /\ ~nt'.escaped
           /\ cache.present /\ clock - cache.timestamp >= CACHE_DURATION + 1
           /\ cache.stories.seq = fetchSeq)
             => /\ nt'.shown = "stale" /\ nt'.staleWarning
                /\ nt'.stories = Slice(cache.stories, NewTabStoryLimit)
                /\ cache' = cache]_vars

\* C21: a cache read that fails is an absent entry - handleFetchStories and
\* loadStories go on to the network without answering; a cache write that
\* fails after a fetch leaves the slot as it was, and the fetched stories are
\* still answered, or shown, as fetched.
C21_StorageFailureIsAbsent ==
    /\ [][\A i \in Handlers :
            (h[i].pc = "read" /\ h'[i].pc # "read" /\ h'[i].readErr) =>
                h'[i].pc = "fetch" /\ h'[i].sent = 0]_vars
    /\ [][(nt.pc \in {"idle", "done"} /\ nt' # nt /\ nt'.readErr) =>
                nt'.pc = "primary"]_vars
    /\ [][\A i \in Handlers :
            (h[i].pc = "save" /\ h'[i].pc = "done" /\ cache' # h[i].cacheData) =>
                /\ cache' = cache
                /\ h'[i].sent = 1
                /\ h'[i].resp = [NoResp EXCEPT !.success = TRUE,
                                               !.stories = h[i].cacheData.stories]]_vars
    /\ [][(nt.pc = "save" /\ nt'.pc = "done" /\ cache' # nt.cacheData) =>
                /\ cache' = cache
                /\ nt'.shown = "network" /\ ~nt'.staleWarning /\ ~nt'.offline
                /\ nt'.stories = nt.cacheData.stories]_vars

\* a handler whose read failed and whose write failed has answered with the
\* stories it fetched
C21_Witness ==
    \E i \in Handlers :
        /\ h[i].pc = "done" /\ h[i].readErr /\ h[i].net
        /\ h[i].resp.success /\ ~h[i].resp.fromCache /\ h[i].resp.stories.n > 0
        /\ ~cache.present

\* C22: every background refresh that has started eventually completes,
\* also when its source never answers.
C22_RefreshCompletes ==
    \A i \in Refreshes : (rf[i].pc # "idle") ~> (rf[i].pc = "idle")

\* C23: the background is asked at most 3 times per loadStories, with waits
\* of 2 s after the first failed attempt and 4 s after the second and none
\* after the third; the first proxy is contacted only after the third attempt
\* has failed, the alternative proxy only after the first proxy.
C23_SourceOrder ==
    /\ [](/\ nt.attempt \in 1..maxRetries
          /\ nt.delays = SubSeq(<<2000, 4000>>, 1, nt.attempt - 1)
          /\ (nt.pc \in {"proxy", "alt"} \/ nt.via \in {"proxy", "alt"})
                => nt.attempt = maxRetries)
    /\ [][(nt'.pc = "proxy" /\ nt.pc # "proxy") =>
            /\ nt.pc \in {"primary", "await"}
            /\ nt.attempt = maxRetries
            /\ nt'.delays = nt.delays]_vars
    /\ [][(nt'.pc = "alt" /\ nt.pc # "alt") => nt.pc = "proxy"]_vars
    /\ [][nt'.via = "alt" /\ nt.via # "alt" => nt.pc = "alt"]_vars
    /\ [][nt'.via = "proxy" /\ nt.via # "proxy" => nt.pc = "proxy"]_vars

\* the alternative proxy is being asked after three attempts and two waits
C23_Witness ==
    /\ nt.pc = "alt" /\ nt.attempt = maxRetries
    /\ nt.delays = <<2000, 4000>>

\* C24: at most 5 item requests are in flight; requests are issued only
\* when none is in flight, at most 5 at a time, and only while fewer than 20
\* stories have been collected; at most 30 are issued in one call; the list
\* returned has at most 20 stories.
C24_Batches ==
    /\ [](/\ Cardinality(ba.pending) <= 5
          /\ ba.issued <= 30
          /\ Len(ba.ret) <= 20)
    /\ [][ba'.issued > ba.issued =>
            /\ ba.pending = {}
            /\ ba'.issued - ba.issued <= 5
            /\ Len(ba.stories) < 20
            /\ ba'.pending = {k \in 1..30 : ba.issued < k /\ k <= ba'.issued}]_vars

\* all 30 requests were issued, in six batches, and 20 stories are returned
C24_Witness ==
    /\ ba.pc = "done" /\ ba.issued = 30
    /\ Len(ba.stories) > 20 /\ Len(ba.ret) = 20

\* the items a source counts as valid: for the background every object, for
\* the proxy every object with a title
ValidIds(b) ==
    {k \in 1..b.issued : k \notin b.failed /\ (b.src = "proxy" => k \notin b.untitled)}

\* C25: once the id list has arrived the call never throws; it returns, in
\* the order of the list, exactly the valid items among those requested (the
\* first 20 of them), and no failed item.
C25_PartialResult ==
    /\ [][ba'.pc = "threw" => ba.pc = "list"]_vars
    /\ [](ba.pc = "done" =>
            /\ \A j \in 1..Len(ba.ret) :
                  /\ ba.ret[j] \in ValidIds(ba)
                  /\ \A k \in 1..Len(ba.ret) : j < k => ba.ret[j] < ba.ret[k]
            /\ Len(ba.ret) = Min(Cardinality(ValidIds(ba)), 20)
            /\ \A v \in ValidIds(ba) : \A j \in 1..Len(ba.ret) :
                  v < ba.ret[j] => \E k \in 1..Len(ba.ret) : ba.ret[k] = v)

\* a call of the background's in which a whole batch and one more request
\* failed has returned the other stories
C25_Witness ==
    /\ ba.pc = "done" /\ ba.src = "hn"
    /\ Cardinality(ba.failed) > 5
    /\ 2 \in ba.failed /\ ba.ret # <<>> /\ ba.ret[1] = 1 /\ ba.ret[2] = 3

\* a refresh ends at its fetch: the fetch failed or delivered nothing
RefreshFailed ==
    \E i \in Refreshes : rf[i].pc = "fetch" /\ rf'[i].pc = "idle"

\* C26 as stated: a refresh that starts goes to the network whatever the
\* cache holds; the pages are notified only in the step in which a non-empty
\* result has been written to the cache; a refresh that fails or delivers
\* nothing notifies no one and leaves the cache as it was.
C26_NotifyAfterWrite ==
    /\ [][\A i \in Refreshes :
            (rf[i].pc = "idle" /\ rf'[i].pc # "idle") => rf'[i].pc = "fetch"]_vars
    /\ [][notified' # notified =>
            \E i \in Refreshes :
                /\ rf[i].pc = "save" /\ rf'[i].pc = "idle"
                /\ rf[i].cacheData.stories.n > 0
                /\ notified' = rf[i].cacheData.stories
                /\ cache' = rf[i].cacheData]_vars
    /\ [][RefreshFailed => cache' = cache /\ notified' = notified]_vars

\* C26, amended: the pages are notified only in the step in which the write
\* of a non-empty result has been attempted; when the write fails the cache
\* is as it was and the pages are notified all the same.
C26_NotifyAfterWriteAttempt ==
    /\ [][\A i \in Refreshes :
            (rf[i].pc = "idle" /\ rf'[i].pc # "idle") => rf'[i].pc = "fetch"]_vars
    /\ [][notified' # notified =>
            \E i \in Refreshes :
                /\ rf[i].pc = "save" /\ rf'[i].pc = "idle"
                /\ rf[i].cacheData.stories.n > 0
                /\ notified' = rf[i].cacheData.stories
                /\ cache' = rf[i].cacheData \/ cache' = cache]_vars
    /\ [][RefreshFailed => cache' = cache /\ notified' = notified]_vars

\* a second refresh has fetched while the entry of the first was fresh, has
\* written its stories and notified the pages
C26_Witness ==
    /\ clock = StartClock
    /\ cache.present /\ cache.stories.seq = 2
    /\ notified = cache.stories
    /\ \A i \in Refreshes : rf[i].pc = "idle"

\* C27: an entry that has expired gets a new timestamp only when the stories
\* of another delivery are written: stories that came out of the cache are
\* not written back under a new timestamp, so a stale entry does not become
\* fresh without a delivery.
C27_TimestampOnlyFromNetwork ==
    [][(Expired(cache) /\ cache'.present /\ cache'.timestamp # cache.timestamp)
          => cache'.stories.seq # cache.stories.seq]_vars

\* C28: the cache slot is empty or holds at least one story.
C28_CacheNeverEmptyList ==
    cache.present => cache.stories.n > 0

\* C29: when toggleArticleType finishes, whatever its requests came to, the
\* store holds a record of the article's user and story, of the old type or
\* of the new one.
C29_MoveNeverLoses ==
    [][(tg' # tg /\ tg'.pc = "done") =>
          \E a \in articles' :
              /\ a.user = tg'.data.user /\ a.story = tg'.data.story
              /\ a.type \in {tg'.data.type, tg'.target}]_vars

\* C30: loadStories turns to the stale entry or the sample stories only
\* from the alternative proxy, the last source: a source that delivered
\* nothing is followed by the next one.
C30_DegradeAfterAllSources ==
    [][(nt'.pc = "catch" /\ nt.pc # "catch") => nt.pc = "alt"]_vars

====
